---- MODULE Spec2Model ----
(***************************************************************************)
(* A model of CSVReader (src/main.cpp): the row tokenizer parseRow, the    *)
(* loader load with its mock-file bootstrap, the renderer printTable, the  *)
(* aggregate calculateTotalRevenue, and main's call sequence.              *)
(*                                                                         *)
(* A std::string is a sequence of one-character strings, so that the       *)
(* tokenizer, the line reader and the numeric conversions work on          *)
(* characters as the code does.                                            *)
(***************************************************************************)
EXTENDS Integers, Sequences, FiniteSets, TLC

VARIABLES
    fs,          \* the file system: path -> [exists, text]
    creatable,   \* whether std::ofstream can open MOCK_FILENAME for writing
    headers,     \* CSVReader::headers
    data,        \* CSVReader::data
    out,         \* what the most recent operation wrote to cout/cerr
    ret,         \* what the most recent load returned: "none", "true", "false"
    arg,         \* the filename argument of the most recent load
    op,          \* the most recent operation
    everLoaded,  \* history: some load has returned true
    pc,          \* the caller's position: "client", or main's line
    status,      \* the process: "running", "exit0", "aborted"
    calls,       \* history: the operations main has called, in order
    line,        \* the argument of parseRow (tokenizer harness)
    fields       \* the result of parseRow (tokenizer harness)

vars == <<fs, creatable, headers, data, out, ret, arg, op, everLoaded,
          pc, status, calls, line, fields>>

(***************************************************************************)
(* Bounds of the model.                                                    *)
(***************************************************************************)
\* lines of a file read by main
MaxLines == 4
\* lines of a file read by a client that calls load repeatedly
MaxApiLines == 2
\* rows Table may grow to under repeated loads
MaxRows == 3
\* characters of a line given to the tokenizer harness
MaxLineLen == 4

(***************************************************************************)
(* Program constants.                                                      *)
(***************************************************************************)
\* std::setw(15)
COL_WIDTH == 15
\* the largest int, std::stoi's range
INT_MAX == 2147483647

MOCK_FILENAME == "data.csv"
OTHER_FILENAME == "other.csv"
Paths == {MOCK_FILENAME, OTHER_FILENAME}

NL == "\n"
COMMA == ","

sPrice == <<"P","r","i","c","e">>
sUnitsSold == <<"U","n","i","t","s","S","o","l","d">>

\* the six lines createMockFile writes
MockText ==
    <<"I","t","e","m","I","D",",","C","a","t","e","g","o","r","y",",","P","r","i","c","e",",","U","n","i","t","s","S","o","l","d",",","L","o","c","a","t","i","o","n",NL>>
    \o <<"1","0","1",",","E","l","e","c","t","r","o","n","i","c","s",",","4","9",".","9","9",",","1","5","0",",","E","a","s","t",NL>>
    \o <<"1","0","2",",","B","o","o","k","s",",","1","9",".","5","0",",","3","0","0",",","W","e","s","t",NL>>
    \o <<"1","0","3",",","E","l","e","c","t","r","o","n","i","c","s",",","1","2","9",".","0","0",",","8","0",",","N","o","r","t","h",NL>>
    \o <<"1","0","4",",","C","l","o","t","h","i","n","g",",","3","5",".","7","5",",","2","2","0",",","E","a","s","t",NL>>
    \o <<"1","0","5",",","B","o","o","k","s",",","1","5",".","0","0",",","4","5","0",",","S","o","u","t","h",NL>>

(***************************************************************************)
(* std::getline(stream, s, delim): the characters up to the first delim    *)
(* (which is consumed and not stored) or to the end of the stream.  It     *)
(* fails, and the reading loop ends, only when the stream is already at    *)
(* its end: no character is extracted and no delimiter is found.           *)
(***************************************************************************)
RECURSIVE DelimPos(_, _, _)
DelimPos(s, delim, i) ==
    IF i > Len(s) THEN i
    ELSE IF s[i] = delim THEN i
    ELSE DelimPos(s, delim, i + 1)

GetLine(rest, delim) ==
    IF rest = <<>>
    THEN [ok |-> FALSE, str |-> <<>>, rest |-> <<>>]
    ELSE LET i == DelimPos(rest, delim, 1)
         IN  [ok   |-> TRUE,
              str  |-> SubSeq(rest, 1, i - 1),
              rest |-> SubSeq(rest, i + 1, Len(rest))]

(***************************************************************************)
(* parseRow: while (std::getline(ss, cell, ',')) fields.push_back(cell)    *)
(***************************************************************************)
RECURSIVE ParseRowLoop(_, _)
ParseRowLoop(ss, acc) ==
    LET g == GetLine(ss, COMMA)
    IN  IF ~g.ok THEN acc
        ELSE ParseRowLoop(g.rest, Append(acc, g.str))

parseRow(ln) == ParseRowLoop(ln, <<>>)

(***************************************************************************)
(* load's reading loop.  It starts from the store's current headers and    *)
(* data: load assigns headers at the first non-empty line and push_backs   *)
(* onto data, and clears neither.                                          *)
(***************************************************************************)
\* faulty variant: empty lines are not skipped
RECURSIVE LoadLoopNoSkip(_, _, _, _)
LoadLoopNoSkip(ifs, is_header, h, d) ==
    LET g == GetLine(ifs, NL)
    IN  IF ~g.ok THEN [headers |-> h, data |-> d]
        ELSE IF is_header
             THEN LoadLoopNoSkip(g.rest, FALSE, parseRow(g.str), d)
             ELSE LoadLoopNoSkip(g.rest, FALSE, h, Append(d, parseRow(g.str)))

RECURSIVE LoadLoop(_, _, _, _)
LoadLoop(ifs, is_header, h, d) ==
    LET g == GetLine(ifs, NL)
    IN  IF ~g.ok THEN [headers |-> h, data |-> d]
        ELSE IF g.str = <<>> THEN LoadLoop(g.rest, is_header, h, d)
        ELSE IF is_header
             THEN LoadLoop(g.rest, FALSE, parseRow(g.str), d)
             ELSE LoadLoop(g.rest, FALSE, h, Append(d, parseRow(g.str)))

(***************************************************************************)
(* Console output: one record per line written.                            *)
(***************************************************************************)
Msg(stream, kind, text, value) ==
    [stream |-> stream, kind |-> kind, text |-> text, value |-> value]

Note(stream, kind) == Msg(stream, kind, <<>>, 0)

Kinds(o) == {o[i].kind : i \in DOMAIN o}

(***************************************************************************)
(* file_exists_modern and createMockFile: MOCK_FILENAME is written only    *)
(* when it does not exist and the output stream opens.                     *)
(***************************************************************************)
file_exists_modern(f, filename) == f[filename].exists

createMockFile(f, canCreate) ==
    IF ~file_exists_modern(f, MOCK_FILENAME)
    THEN IF canCreate
         THEN [fs  |-> [f EXCEPT ![MOCK_FILENAME] = [exists |-> TRUE, text |-> MockText]],
               out |-> <<Note("cout", "INFO_MOCK_CREATED")>>]
         ELSE [fs |-> f, out |-> <<Note("cerr", "ERROR_MOCK_NOT_CREATED")>>]
    ELSE [fs |-> f, out |-> <<Note("cerr", "INFO_MOCK_EXISTS")>>]

\* faulty variant: the open is taken to succeed
IsOpenAlways(file) == TRUE

\* std::ifstream ifs(filename); ifs.is_open()
IsOpen(file) == file.exists

(***************************************************************************)
(* load(filename): what it returns and what it leaves in the store, the    *)
(* file system and the console.                                            *)
(***************************************************************************)
LoadResult(f, canCreate, h, d, filename) ==
    LET m == createMockFile(f, canCreate)
        file == m.fs[filename]
    IN  IF ~IsOpen(file)
        THEN [fs |-> m.fs, headers |-> h, data |-> d, ret |-> "false",
              out |-> Append(m.out, Note("cerr", "ERROR_OPEN"))]
        ELSE LET r == LoadLoop(file.text, TRUE, h, d)
             IN  [fs |-> m.fs, headers |-> r.headers, data |-> r.data, ret |-> "true",
                  out |-> Append(m.out, Msg("cout", "SUCCESS_LOADED", <<>>, Len(r.data)))]

(***************************************************************************)
(* printTable                                                              *)
(***************************************************************************)
RECURSIVE Fill(_, _)
Fill(c, n) == IF n <= 0 THEN <<>> ELSE <<c>> \o Fill(c, n - 1)

\* faulty variant: the cell is cut to the width
SetwCut(s) ==
    IF Len(s) >= COL_WIDTH THEN SubSeq(s, 1, COL_WIDTH)
    ELSE s \o Fill(" ", COL_WIDTH - Len(s))

\* std::left << std::setw(COL_WIDTH) << s
Setw(s) == s \o Fill(" ", COL_WIDTH - Len(s))

RECURSIVE RenderCells(_)
RenderCells(row) ==
    IF row = <<>> THEN <<>> ELSE Setw(Head(row)) \o RenderCells(Tail(row))

\* faulty variant: headers.empty() for data.empty()
PrintTableOutByHeaders(h, d) ==
    IF h = <<>>
    THEN <<Note("cout", "INFO_NO_DATA")>>
    ELSE <<Note("cout", "BLANK"),
           Note("cout", "TITLE"),
           Msg("cout", "HEADER", RenderCells(h), 0),
           Msg("cout", "SEPARATOR", Fill("-", Len(h) * COL_WIDTH), 0)>>
         \o [i \in 1..Len(d) |-> Msg("cout", "ROW", RenderCells(d[i]), 0)]
         \o <<Note("cout", "BLANK")>>

PrintTableOut(h, d) ==
    IF d = <<>>
    THEN <<Note("cout", "INFO_NO_DATA")>>
    ELSE <<Note("cout", "BLANK"),
           Note("cout", "TITLE"),
           Msg("cout", "HEADER", RenderCells(h), 0),
           Msg("cout", "SEPARATOR", Fill("-", Len(h) * COL_WIDTH), 0)>>
         \o [i \in 1..Len(d) |-> Msg("cout", "ROW", RenderCells(d[i]), 0)]
         \o <<Note("cout", "BLANK")>>

(***************************************************************************)
(* std::stod and std::stoi on the characters the model's cells are made    *)
(* of: leading white space is skipped, a sign is optional, and the longest *)
(* numeric prefix is converted; what follows the prefix is ignored.  With  *)
(* no digit there is nothing to convert (std::invalid_argument); stoi      *)
(* beyond INT_MAX is std::out_of_range.  A price is held in hundredths.    *)
(* Exponents, hexadecimal, "inf" and "nan" are not modelled: no cell of    *)
(* the model starts with one.                                              *)
(***************************************************************************)
Digits == <<"0","1","2","3","4","5","6","7","8","9">>
IsDigit(c) == \E i \in DOMAIN Digits : Digits[i] = c
DigitVal(c) == (CHOOSE i \in DOMAIN Digits : Digits[i] = c) - 1
IsSpace(c) == c \in {" ", "\t", "\r", NL}

RECURSIVE SkipSpace(_)
SkipSpace(s) == IF s # <<>> /\ IsSpace(Head(s)) THEN SkipSpace(Tail(s)) ELSE s

\* the sign of the number and what follows the sign
Signed(s) ==
    IF s # <<>> /\ Head(s) = "-" THEN [neg |-> TRUE, rest |-> Tail(s)]
    ELSE IF s # <<>> /\ Head(s) = "+" THEN [neg |-> FALSE, rest |-> Tail(s)]
    ELSE [neg |-> FALSE, rest |-> s]

\* the run of digits s starts with: its value (over when beyond INT_MAX),
\* its length, and what follows it
RECURSIVE DigitRun(_, _, _, _)
DigitRun(s, val, n, over) ==
    IF s = <<>> \/ ~IsDigit(Head(s))
    THEN [val |-> val, n |-> n, over |-> over, rest |-> s]
    ELSE LET dv == DigitVal(Head(s))
         IN  IF over \/ val > (INT_MAX - dv) \div 10
             THEN DigitRun(Tail(s), val, n + 1, TRUE)
             ELSE DigitRun(Tail(s), val * 10 + dv, n + 1, FALSE)

\* the first two digits of a fraction, in hundredths
Hundredths(s) ==
    (IF s # <<>> /\ IsDigit(s[1]) THEN 10 * DigitVal(s[1]) ELSE 0)
    + (IF Len(s) >= 2 /\ IsDigit(s[1]) /\ IsDigit(s[2]) THEN DigitVal(s[2]) ELSE 0)

StoD(str) ==
    LET sg   == Signed(SkipSpace(str))
        ip   == DigitRun(sg.rest, 0, 0, FALSE)
        dot  == ip.rest # <<>> /\ Head(ip.rest) = "."
        frac == IF dot THEN Tail(ip.rest) ELSE <<>>
        fp   == DigitRun(frac, 0, 0, FALSE)
        mag  == ip.val * 100 + Hundredths(frac)
    IN  IF ip.n + fp.n = 0
        THEN [ok |-> FALSE, val |-> 0, rest |-> str]
        ELSE [ok |-> TRUE, val |-> IF sg.neg THEN -mag ELSE mag,
              rest |-> IF dot THEN fp.rest ELSE ip.rest]

StoI(str) ==
    LET sg == Signed(SkipSpace(str))
        ip == DigitRun(sg.rest, 0, 0, FALSE)
    IN  IF ip.n = 0 \/ ip.over
        THEN [ok |-> FALSE, val |-> 0, rest |-> str]
        ELSE [ok |-> TRUE, val |-> IF sg.neg THEN -ip.val ELSE ip.val, rest |-> ip.rest]

(***************************************************************************)
(* calculateTotalRevenue.  std::find gives the first occurrence, or end.   *)
(***************************************************************************)
RECURSIVE FindFrom(_, _, _)
FindFrom(h, name, i) ==
    IF i > Len(h) THEN Len(h)
    ELSE IF h[i] = name THEN i - 1
    ELSE FindFrom(h, name, i + 1)

\* std::distance(headers.begin(), std::find(headers.begin(), headers.end(), name))
Find(h, name) == FindFrom(h, name, 1)

\* faulty variant: && for ||
ColumnsMissingBoth(h) == Find(h, sPrice) = Len(h) /\ Find(h, sUnitsSold) = Len(h)

\* price_it == headers.end() || units_it == headers.end()
ColumnsMissing(h) == Find(h, sPrice) = Len(h) \/ Find(h, sUnitsSold) = Len(h)

(***************************************************************************)
(* row[price_idx] and row[units_idx] are unchecked: on a row shorter than  *)
(* the index the read is undefined behaviour.  The build either aborts the *)
(* process there or reads whatever bytes lie past the row as a string.     *)
(***************************************************************************)
Garbage == {<<"7">>, <<"x">>}

UBOutcomes ==
    {[crash |-> TRUE, cell |-> <<>>]} \cup {[crash |-> FALSE, cell |-> g] : g \in Garbage}

\* the out-of-bounds read of this row, if the loop body reaches one
ReachesOOB(row, price_idx, units_idx) ==
    \/ price_idx >= Len(row)
    \/ /\ StoD(row[price_idx + 1]).ok
       /\ units_idx >= Len(row)

UBRows(h, d) ==
    IF d = <<>> \/ ColumnsMissing(h) THEN {}
    ELSE {i \in DOMAIN d : ReachesOOB(d[i], Find(h, sPrice), Find(h, sUnitsSold))}

Warning(what) == Msg("cerr", "WARNING", what, 0)

\* the loop over data: ub[i] is what the undefined read of row i does
RECURSIVE CalcLoop(_, _, _, _, _, _, _)
CalcLoop(d, i, price_idx, units_idx, total, log, ub) ==
    IF i > Len(d) THEN [crashed |-> FALSE, total |-> total, out |-> log]
    ELSE
    LET row  == d[i]
        pOOB == price_idx >= Len(row)
        uOOB == units_idx >= Len(row)
    IN  IF pOOB /\ ub[i].crash
        THEN [crashed |-> TRUE, total |-> total, out |-> log]
        ELSE
        LET price == StoD(IF pOOB THEN ub[i].cell ELSE row[price_idx + 1])
        IN  IF ~price.ok
            THEN CalcLoop(d, i + 1, price_idx, units_idx, total,
                          Append(log, Warning(<<"s","t","o","d">>)), ub)
            ELSE IF uOOB /\ ub[i].crash
            THEN [crashed |-> TRUE, total |-> total, out |-> log]
            ELSE
            LET units == StoI(IF uOOB THEN ub[i].cell ELSE row[units_idx + 1])
            IN  IF ~units.ok
                THEN CalcLoop(d, i + 1, price_idx, units_idx, total,
                              Append(log, Warning(<<"s","t","o","i">>)), ub)
                ELSE CalcLoop(d, i + 1, price_idx, units_idx,
                              total + price.val * units.val, log, ub)

CalcOut(h, d, ub) ==
    IF d = <<>>
    THEN [crashed |-> FALSE, out |-> <<Note("cout", "INFO_NO_REVENUE")>>]
    ELSE IF ColumnsMissing(h)
    THEN [crashed |-> FALSE, out |-> <<Note("cerr", "ERROR_COLUMNS")>>]
    ELSE LET r == CalcLoop(d, 1, Find(h, sPrice), Find(h, sUnitsSold), 0, <<>>, ub)
         IN  IF r.crashed
             THEN [crashed |-> TRUE, out |-> r.out]
             ELSE [crashed |-> FALSE,
                   out |-> r.out \o <<Note("cout", "ANALYSIS_TITLE"),
                                      Msg("cout", "TOTAL", <<>>, r.total),
                                      Note("cout", "BLANK")>>]

(***************************************************************************)
(* The files the model reads: every text of at most n lines drawn from a   *)
(* pool of lines, with and without the final line's newline.               *)
(***************************************************************************)
sLong == Fill("x", COL_WIDTH + 1)

ApiLinePool ==
    { <<>>,
      sPrice \o <<COMMA>> \o sUnitsSold,
      <<"2", COMMA, "3">> }

MainLinePool ==
    { <<>>,
      sPrice \o <<COMMA>> \o sUnitsSold,
      <<"I","t","e","m">> \o <<COMMA>> \o sPrice,
      <<"1",".","5", COMMA, "2">>,
      <<"2","x", COMMA, "1",".","5">>,
      sLong \o <<COMMA, "3">>,
      <<"5", COMMA>> }

RECURSIVE Unlines(_)
Unlines(ls) == IF ls = <<>> THEN <<>> ELSE Head(ls) \o <<NL>> \o Unlines(Tail(ls))

NoFinalNewline(t) == IF t = <<>> THEN t ELSE SubSeq(t, 1, Len(t) - 1)

LineLists(pool, n) == UNION {[1..k -> pool] : k \in 0..n}

ApiTexts == {Unlines(ls) : ls \in LineLists(ApiLinePool, MaxApiLines)}

MainTexts ==
    LET ts == {Unlines(ls) : ls \in LineLists(MainLinePool, MaxLines)}
    IN  ts \cup {NoFinalNewline(t) : t \in ts}

Absent == [exists |-> FALSE, text |-> <<>>]
File(t) == [exists |-> TRUE, text |-> t]

HarnessLines == UNION {[1..k -> {"a", "b", COMMA}] : k \in 0..MaxLineLen}

(***************************************************************************)
(* The state after CSVReader's construction.                               *)
(***************************************************************************)
InitStore ==
    /\ headers = <<>>
    /\ data = <<>>
    /\ out = <<>>
    /\ ret = "none"
    /\ arg = ""
    /\ op = "init"
    /\ everLoaded = FALSE
    /\ status = "running"
    /\ calls = <<>>
    /\ fields = <<>>

\* a client holding one CSVReader, in a directory with two paths; creatable
\* is read only while MOCK_FILENAME does not exist
Init ==
    /\ InitStore
    /\ pc = "client"
    /\ line = <<>>
    /\ fs \in [Paths -> {Absent} \cup {File(t) : t \in ApiTexts}]
    /\ creatable \in BOOLEAN
    /\ fs[MOCK_FILENAME].exists => creatable

\* main, started in a directory where MOCK_FILENAME may exist with any text
InitMain ==
    /\ InitStore
    /\ pc = "load"
    /\ line = <<>>
    /\ \E f \in {Absent} \cup {File(t) : t \in MainTexts} :
          fs = [p \in Paths |-> IF p = MOCK_FILENAME THEN f ELSE Absent]
    /\ creatable \in BOOLEAN
    /\ fs[MOCK_FILENAME].exists => creatable

\* the tokenizer alone, on every short line
InitParse ==
    /\ InitStore
    /\ pc = "parse"
    /\ line \in HarnessLines
    /\ fs = [p \in Paths |-> Absent]
    /\ creatable = TRUE

(***************************************************************************)
(* The operations.                                                         *)
(***************************************************************************)
DoLoad(filename) ==
    LET r == LoadResult(fs, creatable, headers, data, filename)
    IN  /\ fs' = r.fs
        /\ headers' = r.headers
        /\ data' = r.data
        /\ out' = r.out
        /\ ret' = r.ret
        /\ arg' = filename
        /\ op' = "load"
        /\ everLoaded' = (everLoaded \/ r.ret = "true")
        /\ UNCHANGED <<creatable, status, line, fields>>

DoPrintTable ==
    /\ out' = PrintTableOut(headers, data)
    /\ op' = "printTable"
    /\ UNCHANGED <<fs, creatable, headers, data, ret, arg, everLoaded, status, line, fields>>

DoCalculateTotalRevenue ==
    \E ub \in [UBRows(headers, data) -> UBOutcomes] :
        LET r == CalcOut(headers, data, ub)
        IN  /\ out' = r.out
            /\ status' = IF r.crashed THEN "aborted" ELSE status
            /\ op' = "calculateTotalRevenue"
            /\ UNCHANGED <<fs, creatable, headers, data, ret, arg, everLoaded, line, fields>>

\* a client's calls, in any order; it stops loading once Table holds MaxRows rows
Load(filename) ==
    /\ pc = "client" /\ status = "running"
    /\ Len(data) < MaxRows
    /\ DoLoad(filename)
    /\ UNCHANGED <<pc, calls>>

PrintTable ==
    /\ pc = "client" /\ status = "running"
    /\ DoPrintTable
    /\ UNCHANGED <<pc, calls>>

CalculateTotalRevenue ==
    /\ pc = "client" /\ status = "running"
    /\ DoCalculateTotalRevenue
    /\ UNCHANGED <<pc, calls>>

Next ==
    \/ \E filename \in Paths : Load(filename)
    \/ PrintTable
    \/ CalculateTotalRevenue

Spec == Init /\ [][Next]_vars

\* main
MainLoad ==
    /\ pc = "load"
    /\ DoLoad(MOCK_FILENAME)
    /\ calls' = Append(calls, "load")
    /\ pc' = IF ret' = "true" THEN "printTable" ELSE "return"

MainPrintTable ==
    /\ pc = "printTable"
    /\ DoPrintTable
    /\ calls' = Append(calls, "printTable")
    /\ pc' = "calculateTotalRevenue"

MainCalculateTotalRevenue ==
    /\ pc = "calculateTotalRevenue"
    /\ DoCalculateTotalRevenue
    /\ calls' = Append(calls, "calculateTotalRevenue")
    /\ pc' = IF status' = "aborted" THEN "crashed" ELSE "return"

MainReturn ==
    /\ pc = "return"
    /\ status' = "exit0"
    /\ pc' = "done"
    /\ UNCHANGED <<fs, creatable, headers, data, out, ret, arg, op, everLoaded,
                   calls, line, fields>>

NextMain ==
    \/ MainLoad
    \/ MainPrintTable
    \/ MainCalculateTotalRevenue
    \/ MainReturn

SpecMain == InitMain /\ [][NextMain]_vars

\* the tokenizer harness
ParseRow ==
    /\ pc = "parse"
    /\ fields' = parseRow(line)
    /\ op' = "parseRow"
    /\ pc' = "parsed"
    /\ UNCHANGED <<fs, creatable, headers, data, out, ret, arg, everLoaded,
                   status, calls, line>>

NextParse == ParseRow

SpecParse == InitParse /\ [][NextParse]_vars

(***************************************************************************)
(* Reference definitions the properties are stated with.  They split by    *)
(* the positions of the separators, not by reading as the code does.       *)
(***************************************************************************)
Nth(S, k) == CHOOSE x \in S : Cardinality({y \in S : y < x}) = k - 1

\* the places after which a piece of s ends: each separator, and the end
Stops(s, sep) == {i \in 1..Len(s) : s[i] = sep} \cup {Len(s) + 1}

StopAfter(s, sep, from) ==
    CHOOSE i \in Stops(s, sep) : i >= from /\ \A j \in Stops(s, sep) : j >= from => i <= j

\* the non-empty lines of a text, in order
NonEmptyLineStarts(t) ==
    {i \in 1..Len(t) : t[i] # NL /\ (i = 1 \/ t[i - 1] = NL)}

NonEmptyLines(t) ==
    [k \in 1..Cardinality(NonEmptyLineStarts(t)) |->
        LET from == Nth(NonEmptyLineStarts(t), k)
        IN  SubSeq(t, from, StopAfter(t, NL, from) - 1)]

\* the pieces of a line between consecutive commas: one more than its commas
Pieces(ln) ==
    [k \in 1..Cardinality(Stops(ln, COMMA)) |->
        LET to == Nth(Stops(ln, COMMA), k)
            from == IF k = 1 THEN 1 ELSE Nth(Stops(ln, COMMA), k - 1) + 1
        IN  SubSeq(ln, from, to - 1)]

HasName(h, name) == \E i \in DOMAIN h : h[i] = name

\* C1: a successful load leaves exactly what parsing the loaded source alone
\* gives: its first non-empty line as Header, its later non-empty lines as
\* Table, nothing left over from an earlier load.
C1_LoadReplacesStore ==
    (op = "load" /\ ret = "true") =>
        LET alone == LoadLoop(fs[arg].text, TRUE, <<>>, <<>>)
        IN  headers = alone.headers /\ data = alone.data

\* C2 as stated: a load of a path that does not exist when load is called
\* returns failure and leaves Header and Table as they were.
C2_MissingPathFails ==
    [][(op' = "load" /\ ~fs[arg'].exists) =>
          (ret' = "false" /\ headers' = headers /\ data' = data)]_vars

\* C2 as amended: a load of a path that still does not exist once load's
\* mock-file step has run returns failure, does not end the process, and
\* leaves Header and Table as they were.
C2_UnopenablePathFails ==
    [][(op' = "load" /\ ~fs'[arg'].exists) =>
          (ret' = "false" /\ status' = "running"
           /\ headers' = headers /\ data' = data)]_vars

\* a failed load on a store that holds rows
C2_Witness == op = "load" /\ ret = "false" /\ data # <<>> /\ ~fs[arg].exists

\* C3: main's load, into the empty store, skips zero-length lines wherever
\* they are: Header is the tokenization of the first non-empty line and Table
\* holds the tokenization of each later non-empty line, in order, so the row
\* count is the number of non-empty lines minus one.
C3_BlankLinesSkipped ==
    (ret = "true") =>
        LET ne == NonEmptyLines(fs[MOCK_FILENAME].text)
        IN  IF ne = <<>>
            THEN headers = <<>> /\ data = <<>>
            ELSE /\ headers = parseRow(ne[1])
                 /\ Len(data) = Len(ne) - 1
                 /\ \A i \in 1..Len(data) : data[i] = parseRow(ne[i + 1])

\* a load of a text with a blank line before the header and one between the
\* header and the only row
C3_Witness ==
    /\ ret = "true"
    /\ Len(data) = 1
    /\ LET t == fs[MOCK_FILENAME].text
       IN  /\ t[1] = NL
           /\ \E i \in 2..(Len(t) - 2) : t[i] # NL /\ t[i + 1] = NL /\ t[i + 2] = NL

\* C4: parseRow gives the pieces between consecutive commas, empty pieces
\* included, k+1 fields for k commas; the empty line gives no field.
C4_EveryCommaIsABoundary ==
    (pc = "parsed") =>
        fields = (IF line = <<>> THEN <<>> ELSE Pieces(line))

(***************************************************************************)
(* Reference definitions for what the console shows and for what a cell    *)
(* is: a numeric cell is, as a whole, an optionally signed decimal number; *)
(* an integer cell is, as a whole, an optionally signed run of digits.     *)
(***************************************************************************)
Count(o, kind) == Cardinality({i \in DOMAIN o : o[i].kind = kind})

TotalOf(o) == o[CHOOSE i \in DOMAIN o : o[i].kind = "TOTAL"].value

\* the 0-based index of the first column called name
FirstIndex(h, name) ==
    (CHOOSE i \in DOMAIN h : h[i] = name /\ \A j \in 1..(i - 1) : h[j] # name) - 1

Unsigned(c) == IF c # <<>> /\ c[1] \in {"+", "-"} THEN Tail(c) ELSE c

IsInteger(c) ==
    LET u == Unsigned(c)
    IN  u # <<>> /\ \A i \in DOMAIN u : IsDigit(u[i])

IsNumeric(c) ==
    LET u == Unsigned(c)
    IN  /\ \E i \in DOMAIN u : IsDigit(u[i])
        /\ \A i \in DOMAIN u : IsDigit(u[i]) \/ u[i] = "."
        /\ Cardinality({i \in DOMAIN u : u[i] = "."}) <= 1

HasCell(row, idx) == idx < Len(row)

\* the rows C6 counts: a numeric Price cell and an integer UnitsSold cell
Counted(row, pi, ui) ==
    /\ HasCell(row, pi) /\ HasCell(row, ui)
    /\ IsNumeric(row[pi + 1]) /\ IsInteger(row[ui + 1])

\* the rows the conversions accept, among those long enough for both cells
Converted(row, pi, ui) ==
    /\ HasCell(row, pi) /\ HasCell(row, ui)
    /\ StoD(row[pi + 1]).ok /\ StoI(row[ui + 1]).ok

RECURSIVE SumCounted(_, _, _, _)
SumCounted(d, pi, ui, i) ==
    IF i > Len(d) THEN 0
    ELSE (IF Counted(d[i], pi, ui)
          THEN StoD(d[i][pi + 1]).val * StoI(d[i][ui + 1]).val ELSE 0)
         + SumCounted(d, pi, ui, i + 1)

RECURSIVE SumConverted(_, _, _, _)
SumConverted(d, pi, ui, i) ==
    IF i > Len(d) THEN 0
    ELSE (IF Converted(d[i], pi, ui)
          THEN StoD(d[i][pi + 1]).val * StoI(d[i][ui + 1]).val ELSE 0)
         + SumConverted(d, pi, ui, i + 1)

BothColumns(h) == HasName(h, sPrice) /\ HasName(h, sUnitsSold)

\* C5 as stated: with no Price column or no UnitsSold column the aggregate
\* reports the schema error and nothing else, whatever Table holds.
C5_MissingColumnIsAnError ==
    (op = "calculateTotalRevenue" /\ ~BothColumns(headers)) =>
        out = <<Note("cerr", "ERROR_COLUMNS")>>

\* C5 as amended: with no Price column or no UnitsSold column the aggregate
\* reads no row and reports no total; it reports the schema error when Table
\* is not empty and the no-data notice when Table is empty.
C5_MissingColumnNoTotal ==
    (op = "calculateTotalRevenue" /\ ~BothColumns(headers)) =>
        /\ status # "aborted"
        /\ out = IF data = <<>>
                 THEN <<Note("cout", "INFO_NO_REVENUE")>>
                 ELSE <<Note("cerr", "ERROR_COLUMNS")>>

\* the aggregate on rows under a header with Price and without UnitsSold
C5_Witness ==
    /\ op = "calculateTotalRevenue"
    /\ data # <<>>
    /\ HasName(headers, sPrice) /\ ~HasName(headers, sUnitsSold)

\* every row has a cell in both columns
AllRowsLongEnough(h, d) ==
    \A i \in DOMAIN d :
        HasCell(d[i], FirstIndex(h, sPrice)) /\ HasCell(d[i], FirstIndex(h, sUnitsSold))

\* C6: with both columns, the reported total is the sum of price*units over
\* the rows with a numeric Price cell and an integer UnitsSold cell, and every
\* other row gives one warning and nothing else.  Stated for the tables in
\* which every row has both cells (C7 is about the others).
C6_TotalOverNumericRows ==
    (op = "calculateTotalRevenue" /\ BothColumns(headers) /\ "TOTAL" \in Kinds(out)
       /\ AllRowsLongEnough(headers, data)) =>
        LET pi == FirstIndex(headers, sPrice)
            ui == FirstIndex(headers, sUnitsSold)
        IN  /\ TotalOf(out) = SumCounted(data, pi, ui, 1)
            /\ Count(out, "WARNING")
                 = Cardinality({i \in DOMAIN data : ~Counted(data[i], pi, ui)})

\* C7: with both columns and a row too short for one of them, the short row
\* is skipped with a warning and adds nothing, the other rows are processed
\* and the total is reported.
C7_ShortRowSkipped ==
    (op = "calculateTotalRevenue" /\ BothColumns(headers)
       /\ \E i \in DOMAIN data :
             ~HasCell(data[i], FirstIndex(headers, sPrice))
             \/ ~HasCell(data[i], FirstIndex(headers, sUnitsSold))) =>
        LET pi == FirstIndex(headers, sPrice)
            ui == FirstIndex(headers, sUnitsSold)
        IN  /\ status # "aborted"
            /\ "TOTAL" \in Kinds(out)
            /\ TotalOf(out) = SumConverted(data, pi, ui, 1)
            /\ Count(out, "WARNING")
                 = Cardinality({i \in DOMAIN data : ~Converted(data[i], pi, ui)})

\* C8 as stated: before any successful load render and aggregate write only
\* the no-data notice; after a successful load they never write it.
C8_LoadedAfterSuccess ==
    /\ op = "printTable" =>
          IF everLoaded THEN "INFO_NO_DATA" \notin Kinds(out)
          ELSE out = <<Note("cout", "INFO_NO_DATA")>>
    /\ op = "calculateTotalRevenue" =>
          IF everLoaded THEN "INFO_NO_REVENUE" \notin Kinds(out)
          ELSE out = <<Note("cout", "INFO_NO_REVENUE")>>

\* C8 as amended: the two states are an empty and a non-empty Table.  Before
\* any successful load Header and Table are empty, whatever loads failed;
\* while Table is empty render and aggregate write only the no-data notice;
\* once Table holds a row they never write it: render writes the rows, and
\* aggregate writes the schema error or goes through the rows.
C8_LoadedIsNonEmptyTable ==
    /\ ~everLoaded => (headers = <<>> /\ data = <<>>)
    /\ op = "printTable" =>
          IF data = <<>> THEN out = <<Note("cout", "INFO_NO_DATA")>>
          ELSE "INFO_NO_DATA" \notin Kinds(out) /\ Count(out, "ROW") = Len(data)
    /\ op = "calculateTotalRevenue" =>
          IF data = <<>> THEN out = <<Note("cout", "INFO_NO_REVENUE")>>
          ELSE /\ "INFO_NO_REVENUE" \notin Kinds(out)
               /\ \/ out = <<Note("cerr", "ERROR_COLUMNS")>>
                  \/ "TOTAL" \in Kinds(out)
                  \/ status = "aborted"

\* a render of loaded rows after a later load has failed
C8_Witness ==
    op = "printTable" /\ ret = "false" /\ everLoaded /\ data # <<>>

\* C9: main calls load, then printTable and calculateTotalRevenue in that
\* order when load returned true and neither when it returned false, and
\* ends with exit code 0.
C9_MainExitsZero ==
    (pc \in {"done", "crashed"}) =>
        /\ status = "exit0"
        /\ calls = IF ret = "true"
                   THEN <<"load", "printTable", "calculateTotalRevenue">>
                   ELSE <<"load">>

(***************************************************************************)
(* C10: the layout of a rendered line, by offsets: each cell stands at the *)
(* sum of the widths before it, whole, followed by spaces up to the next   *)
(* cell, where a cell's width is COL_WIDTH or its own length if longer.    *)
(***************************************************************************)
CellWidth(c) == IF Len(c) > COL_WIDTH THEN Len(c) ELSE COL_WIDTH

RECURSIVE Offset(_, _)
Offset(cells, k) == IF k <= 1 THEN 0 ELSE Offset(cells, k - 1) + CellWidth(cells[k - 1])

Rendered(text, cells) ==
    /\ Len(text) = Offset(cells, Len(cells) + 1)
    /\ \A k \in DOMAIN cells :
          /\ SubSeq(text, Offset(cells, k) + 1, Offset(cells, k) + Len(cells[k])) = cells[k]
          /\ \A j \in (Offset(cells, k) + Len(cells[k]) + 1)..Offset(cells, k + 1) :
                text[j] = " "

IsTableLine(m) == m.kind \in {"HEADER", "SEPARATOR", "ROW"}

\* C10: for a non-empty Table printTable writes the header line, then a rule
\* of (columns of Header) x 15 dashes, then one line per row in Table order,
\* each cell padded to 15 characters and none cut; for an empty Table it
\* writes the notice alone.
C10_TableLayout ==
    (op = "printTable") =>
        IF data = <<>>
        THEN out = <<Note("cout", "INFO_NO_DATA")>>
        ELSE LET t == SelectSeq(out, IsTableLine)
             IN  /\ "INFO_NO_DATA" \notin Kinds(out)
                 /\ Len(t) = 2 + Len(data)
                 /\ t[1].kind = "HEADER" /\ Rendered(t[1].text, headers)
                 /\ t[2].kind = "SEPARATOR"
                 /\ Len(t[2].text) = Len(headers) * 15
                 /\ \A j \in DOMAIN t[2].text : t[2].text[j] = "-"
                 /\ \A i \in DOMAIN data :
                       t[i + 2].kind = "ROW" /\ Rendered(t[i + 2].text, data[i])

\* a render of two rows, one of them with a cell longer than the column
C10_Witness ==
    /\ op = "printTable"
    /\ Len(data) >= 2
    /\ \E i \in DOMAIN data : \E k \in DOMAIN data[i] : Len(data[i][k]) > COL_WIDTH
    /\ \E i \in DOMAIN data : \E k \in DOMAIN data[i] : Len(data[i][k]) < COL_WIDTH

====
